---- MODULE Spec2Model ----
(***************************************************************************)
(* A model of two parts of the nats.rs client:                             *)
(*   - src/src/jetstream/pull_subscription.rs: the shared consumer handle  *)
(*     (Inner behind an Arc), its Drop, and PullSubscription::fetch;       *)
(*   - src/src/headers.rs: the header block parser (TryFrom<&[u8]>) and    *)
(*     serializer (Headers::to_bytes).                                     *)
(* Strings are sequences of one-character strings, so that trim, split,    *)
(* lines and starts_with are computed character by character.              *)
(***************************************************************************)
EXTENDS Integers, Sequences, FiniteSets, TLC

VARIABLES
    ownership,     \* Inner.consumer_ownership: "Yes" (owned) or "No" (borrowed)
    holders,       \* the live PullSubscription clones (strong references of the Arc)
    made,          \* how many PullSubscription values were ever made for this handle
    inner,         \* "live" until Drop for Inner has run, then "dropped"
    deleteLog,     \* outcomes of the delete_consumer requests issued so far
    released,      \* what the last release reported to its caller
    pending,       \* messages pending on the consumer (server side)
    pullRequests,  \* retrieval requests issued to the transport
    fetched,       \* the last fetch call and what it returned
    mode,          \* codec: where the current run stands
    pairs,         \* codec: the (name, value) pairs a Headers is built from
    headers,       \* codec: the Headers value built from pairs
    buf,           \* codec: the bytes handed to try_from
    parsed         \* codec: the result of try_from

subVars == <<ownership, holders, made, inner, deleteLog, released, pending,
             pullRequests, fetched>>
codecVars == <<mode, pairs, headers, buf, parsed>>
vars == <<ownership, holders, made, inner, deleteLog, released, pending,
          pullRequests, fetched, mode, pairs, headers, buf, parsed>>

(***************************************************************************)
(* Bounds                                                                  *)
(***************************************************************************)
MaxClones == 4
MaxPending == 3
MaxBatch == 3

(***************************************************************************)
(* jetstream/pull_subscription.rs                                          *)
(***************************************************************************)
ConsumerOwnership == {"Yes", "No"}

\* What JetStream::delete_consumer can answer; Drop sees it as an io::Result.
DeleteOutcomes == {"success", "network_error", "not_found"}

NoFetch ==
    [called |-> FALSE, batch |-> 0, available |-> 0, ok |-> FALSE,
     messages |-> <<>>]
NoRelease == [last |-> FALSE, surfaced |-> "none"]

\* A faulty variant: the outcome of delete_consumer is handed on instead of .ok()'d away.
DropInnerPropagates(own, outcome) ==
    [requests |-> IF own = "Yes" THEN <<outcome>> ELSE <<>>,
     surfaced |-> IF own = "Yes" /\ outcome # "success" THEN outcome ELSE "none"]

\* Drop for Inner: one delete_consumer request if the consumer is owned, its
\* result discarded by .ok(); drop returns () whatever happened.
DropInner(own, outcome) ==
    [requests |-> IF own = "Yes" THEN <<outcome>> ELSE <<>>,
     surfaced |-> "none"]

\* A faulty variant: every release runs the destructor of Inner.
IsLastReferenceAlways(hs, h) == TRUE

\* Arc<Inner>: the value is dropped by the release that takes the strong count
\* to zero.
IsLastReference(hs, h) == hs \ {h} = {}

\* A faulty variant: fetch hands back everything that is pending.
FetchAllPending(batch, n) ==
    [called |-> TRUE, batch |-> batch, available |-> n, ok |-> TRUE,
     messages |-> [i \in 1..n |-> i]]

\* PullSubscription::fetch: Ok(Fetch {}) for every batch; nothing is asked of
\* the transport and batch is not looked at.
FetchResult(batch, n) ==
    [called |-> TRUE, batch |-> batch, available |-> n, ok |-> TRUE,
     messages |-> <<>>]

\* PullSubscription::new: one handle, one reference.
InitSub ==
    /\ ownership \in ConsumerOwnership
    /\ holders = {1}
    /\ made = 1
    /\ inner = "live"
    /\ deleteLog = <<>>
    /\ released = NoRelease
    /\ pending = 0
    /\ pullRequests = 0
    /\ fetched = NoFetch

\* #[derive(Clone)]: a holder makes one more reference to the same Inner.
Clone ==
    /\ holders # {}
    /\ made < MaxClones
    /\ holders' = holders \cup {made + 1}
    /\ made' = made + 1
    /\ UNCHANGED <<ownership, inner, deleteLog, released, pending,
                   pullRequests, fetched>>

\* A holder drops its PullSubscription; the last one runs Drop for Inner.
Release(h, outcome) ==
    /\ h \in holders
    /\ holders' = holders \ {h}
    /\ IF IsLastReference(holders, h)
          THEN LET d == DropInner(ownership, outcome)
               IN /\ inner' = "dropped"
                  /\ deleteLog' = deleteLog \o d.requests
                  /\ released' = [last |-> TRUE, surfaced |-> d.surfaced]
          ELSE /\ released' = [last |-> FALSE, surfaced |-> "none"]
               /\ UNCHANGED <<inner, deleteLog>>
    /\ UNCHANGED <<ownership, made, pending, pullRequests, fetched>>

\* The server gets one more message for the consumer.
Publish ==
    /\ pending < MaxPending
    /\ pending' = pending + 1
    /\ UNCHANGED <<ownership, holders, made, inner, deleteLog, released,
                   pullRequests, fetched>>

\* fetch(batch): an associated function, callable whatever the handle's state.
Fetch(batch) ==
    /\ fetched' = FetchResult(batch, pending)
    /\ UNCHANGED <<ownership, holders, made, inner, deleteLog, released,
                   pending, pullRequests>>

(***************************************************************************)
(* headers.rs: strings                                                     *)
(***************************************************************************)

\* The characters the enumerated inputs are written in: a letter, the two
\* separators, the two continuation characters and the two line-ending bytes.
Alphabet == {"a", ":", ",", " ", "\t", "\r", "\n"}

\* char::is_whitespace, for the characters that occur in the inputs.
IsWhitespace(c) == c \in {" ", "\t", "\r", "\n"}

\* is_continuation
IsContinuation(c) == c = " " \/ c = "\t"

RECURSIVE TrimStart(_)
\* str::trim_start
TrimStart(s) ==
    IF s # <<>> /\ IsWhitespace(Head(s)) THEN TrimStart(Tail(s)) ELSE s

RECURSIVE TrimEnd(_)
\* str::trim_end
TrimEnd(s) ==
    IF s # <<>> /\ IsWhitespace(s[Len(s)])
       THEN TrimEnd(SubSeq(s, 1, Len(s) - 1))
       ELSE s

\* str::trim
Trim(s) == TrimEnd(TrimStart(s))

\* str::starts_with(&str)
StartsWith(s, p) == Len(s) >= Len(p) /\ SubSeq(s, 1, Len(p)) = p

\* The index of the first c in s, 0 when there is none.
IndexOf(s, c) ==
    IF \E i \in 1..Len(s) : s[i] = c
       THEN CHOOSE i \in 1..Len(s) :
                s[i] = c /\ \A j \in 1..(i - 1) : s[j] # c
       ELSE 0

RECURSIVE StrLines(_)
\* str::lines: split after every "\n"; a line loses its "\n" and then one
\* "\r" before it; a last line without "\n" is kept as it is (a "\r" not
\* followed by "\n" is part of its line); "" has no line.
StrLines(s) ==
    IF s = <<>> THEN <<>>
    ELSE LET i == IndexOf(s, "\n")
         IN IF i = 0 THEN <<s>>
            ELSE LET raw == SubSeq(s, 1, i - 1)
                     line == IF raw # <<>> /\ raw[Len(raw)] = "\r"
                                THEN SubSeq(raw, 1, Len(raw) - 1)
                                ELSE raw
                 IN <<line>> \o StrLines(SubSeq(s, i + 1, Len(s)))

\* line.splitn(2, ':'): the line itself, or what is before and after its
\* first colon.
SplitN2(line) ==
    LET i == IndexOf(line, ":")
    IN IF i = 0 THEN <<line>>
       ELSE <<SubSeq(line, 1, i - 1), SubSeq(line, i + 1, Len(line))>>

RECURSIVE Split(_, _)
\* s.split(c): the pieces between the c's, at least one piece.
Split(s, c) ==
    LET i == IndexOf(s, c)
    IN IF i = 0 THEN <<s>>
       ELSE <<SubSeq(s, 1, i - 1)>> \o Split(SubSeq(s, i + 1, Len(s)), c)

(***************************************************************************)
(* headers.rs: Headers, a map from names to sets of values                 *)
(***************************************************************************)

\* HashMap::default()
EmptyInner == [n \in {} |-> {}]

\* inner.entry(k).or_insert_with(HashSet::default)
EntryOrInsert(m, k) ==
    [n \in (DOMAIN m) \cup {k} |-> IF n \in DOMAIN m THEN m[n] ELSE {}]

\* entry.insert(v)
InsertValue(m, k, v) == [m EXCEPT ![k] = m[k] \cup {v}]

RECURSIVE InsertPieces(_, _, _)
\* for v in s.split(',') { entry.insert(v.to_string()); }
InsertPieces(m, k, pieces) ==
    IF pieces = <<>> THEN m
    ELSE InsertPieces(InsertValue(m, k, Head(pieces)), k, Tail(pieces))

RECURSIVE FromIterator(_)
\* FromIterator<(String, String)>: every pair is inserted under its name.
FromIterator(ps) ==
    IF ps = {} THEN EmptyInner
    ELSE LET p == CHOOSE q \in ps : TRUE
         IN InsertValue(EntryOrInsert(FromIterator(ps \ {p}), p[1]), p[1], p[2])

(***************************************************************************)
(* Byte strings of the tests and of the description                        *)
(***************************************************************************)
\* The input of the test single_line_single_value.
BytesSingleLineSingleValue ==
    <<"N", "A", "T", "S", "/", "1", ".", "0", " ", "2", "0", "0", "\r",
      "\n", "a", "c", "c", "e", "p", "t", "-", "e", "n", "c", "o", "d",
      "i", "n", "g", ":", " ", "j", "s", "o", "n", "\r", "\n", "a", "u",
      "t", "h", "o", "r", "i", "z", "a", "t", "i", "o", "n", ":", " ", "s",
      "3", "c", "r", "3", "t", "\r", "\n">>

\* The input of the test single_line_multi_value.
BytesSingleLineMultiValue ==
    <<"N", "A", "T", "S", "/", "1", ".", "0", " ", "2", "0", "0", "\r",
      "\n", "a", "c", "c", "e", "p", "t", "-", "e", "n", "c", "o", "d",
      "i", "n", "g", ":", " ", "h", "t", "m", "l", ",", "j", "s", "o", "n",
      ",", "t", "e", "x", "t", "\r", "\n", "a", "u", "t", "h", "o", "r",
      "i", "z", "a", "t", "i", "o", "n", ":", " ", "s", "3", "c", "r", "3",
      "t", "\r", "\n">>

\* The input of the test multi_line_single_value_with_tab.
BytesMultiLineSingleValueWithTab ==
    <<"N", "A", "T", "S", "/", "1", ".", "0", " ", "2", "0", "0", "\r",
      "\n", "x", "-", "t", "e", "s", "t", ":", " ", "o", "n", "e", "\r",
      "\n", "\t", " ", "t", "w", "o", "\r", "\n", "\t", " ", "t", "h", "r",
      "e", "e", "\r", "\n">>

\* The input of the test multi_line_single_value_with_space.
BytesMultiLineSingleValueWithSpace ==
    <<"N", "A", "T", "S", "/", "1", ".", "0", " ", "2", "0", "0", "\r",
      "\n", "x", "-", "t", "e", "s", "t", ":", " ", "o", "n", "e", "\r",
      "\n", " ", " ", "t", "w", "o", "\r", "\n", " ", " ", "t", "h", "r",
      "e", "e", "\r", "\n">>

\* The input of the test multi_line_multi_value_with_tab.
BytesMultiLineMultiValueWithTab ==
    <<"N", "A", "T", "S", "/", "1", ".", "0", " ", "2", "0", "0", "\r",
      "\n", "x", "-", "t", "e", "s", "t", ":", " ", "o", "n", "e", ",",
      " ", "\r", "\n", "\t", "t", "w", "o", ",", "\r", "\n", "\t", "t",
      "h", "r", "e", "e", "\r", "\n">>

\* The input of the test multi_line_multi_value_with_spaces.
BytesMultiLineMultiValueWithSpaces ==
    <<"N", "A", "T", "S", "/", "1", ".", "0", " ", "2", "0", "0", "\r",
      "\n", "x", "-", "t", "e", "s", "t", ":", " ", "o", "n", "e", ",",
      "\r", "\n", " ", "t", "w", "o", ",", "\r", "\n", " ", "t", "h", "r",
      "e", "e", "\r", "\n">>

\* "x-test: one" followed by " two" and " three", one space each.
BytesOneSpaceContinuation ==
    <<"N", "A", "T", "S", "/", "1", ".", "0", "\r", "\n", "x", "-", "t",
      "e", "s", "t", ":", " ", "o", "n", "e", "\r", "\n", " ", "t", "w",
      "o", "\r", "\n", " ", "t", "h", "r", "e", "e", "\r", "\n">>

\* One header line "x-test: one,two,three".
BytesCommaList ==
    <<"N", "A", "T", "S", "/", "1", ".", "0", "\r", "\n", "x", "-", "t",
      "e", "s", "t", ":", " ", "o", "n", "e", ",", "t", "w", "o", ",", "t",
      "h", "r", "e", "e", "\r", "\n">>

\* One header line "x-test: one, two".
BytesSpacedList ==
    <<"N", "A", "T", "S", "/", "1", ".", "0", "\r", "\n", "x", "-", "t",
      "e", "s", "t", ":", " ", "o", "n", "e", ",", " ", "t", "w", "o",
      "\r", "\n">>

\* A header line without a colon.
BytesGarbage ==
    <<"N", "A", "T", "S", "/", "1", ".", "0", "\r", "\n", "g", "a", "r",
      "b", "a", "g", "e", "\r", "\n">>

\* A header line with nothing before its colon.
BytesEmptyName ==
    <<"N", "A", "T", "S", "/", "1", ".", "0", "\r", "\n", ":", "o", "n",
      "e", "\r", "\n">>

StrXTest ==
    <<"x", "-", "t", "e", "s", "t">>

StrOneTwoThree ==
    <<"o", "n", "e", " ", "t", "w", "o", " ", "t", "h", "r", "e", "e">>

StrOnetwothree ==
    <<"o", "n", "e", "t", "w", "o", "t", "h", "r", "e", "e">>

VersionLine ==
    <<"N", "A", "T", "S", "/", "1", ".", "0", "\r", "\n">>

CrLf ==
    <<"\r", "\n">>

(***************************************************************************)
(* headers.rs: TryFrom<&[u8]> for Headers                                  *)
(***************************************************************************)
NatsPrefix == <<"N", "A", "T", "S", "/">>

ErrMissing == "expected header information not present"
ErrVersion == "version line does not begin with NATS/"
ErrHeader == "malformed header input"

ParseOk(m) == [ok |-> TRUE, inner |-> m]
\* parse_error
ParseError(e) == [ok |-> FALSE, err |-> e]
NotParsed == [ok |-> FALSE, err |-> "not parsed"]

\* A faulty variant: the whole continuation line is appended, its first character too.
ContinuationContentWhole(line) == line

\* A faulty variant: all the leading whitespace of a continuation line is dropped.
ContinuationContentStripped(line) == TrimStart(line)

\* &v[1..]
ContinuationContent(line) == Tail(line)

RECURSIVE Fold(_, _, _)
\* while let Some(v) = lines.next_if(|s| s.starts_with(&is_continuation))
\*     { s.push_str(&v[1..]); }
\* from line j on; the folded value and the index of the first line not taken.
Fold(lines, j, s) ==
    IF j <= Len(lines) /\ lines[j] # <<>> /\ IsContinuation(lines[j][1])
       THEN Fold(lines, j + 1, s \o ContinuationContent(lines[j]))
       ELSE [value |-> s, next |-> j]

\* A faulty variant: a line without a colon is skipped like a blank one.
ClassifyLenient(splits) ==
    IF Len(splits) = 2 THEN "header" ELSE "blank"

\* match splits[..] { [k, v] => .., [""] => continue, _ => error }
Classify(splits) ==
    IF Len(splits) = 2 THEN "header"
    ELSE IF splits = << <<>> >> THEN "blank"
    ELSE "malformed"

\* line.splitn(2, ':').map(str::trim).collect()
Splits(line) ==
    LET raw == SplitN2(line)
    IN [i \in 1..Len(raw) |-> Trim(raw[i])]

RECURSIVE ParseLines(_, _, _)
\* while let Some(line) = lines.next() { .. }, from line i on.
ParseLines(lines, i, m) ==
    IF i > Len(lines) THEN ParseOk(m)
    ELSE LET splits == Splits(lines[i])
             kind == Classify(splits)
         IN IF kind = "header"
               THEN LET k == splits[1]
                        f == Fold(lines, i + 1, splits[2])
                    IN ParseLines(lines, f.next,
                           InsertPieces(EntryOrInsert(m, k), k,
                                        Split(f.value, ",")))
            ELSE IF kind = "blank"
               THEN ParseLines(lines, i + 1, m)
            ELSE ParseError(ErrHeader)

\* line.starts_with("NATS/")
VersionLineOk(line) == StartsWith(line, NatsPrefix)

\* Headers::try_from on bytes that are valid UTF-8.
TryFrom(b) ==
    LET lines == StrLines(b)
    IN IF lines = <<>> THEN ParseError(ErrMissing)
       ELSE IF ~VersionLineOk(lines[1]) THEN ParseError(ErrVersion)
       ELSE ParseLines(lines, 2, EmptyInner)

CodecIdle ==
    /\ mode = "idle"
    /\ pairs = {}
    /\ headers = EmptyInner
    /\ buf = <<>>
    /\ parsed = NotParsed

Init == InitSub /\ CodecIdle

Next ==
    \/ Clone /\ UNCHANGED codecVars
    \/ (\E h \in holders, o \in DeleteOutcomes : Release(h, o)) /\ UNCHANGED codecVars
    \/ Publish /\ UNCHANGED codecVars
    \/ (\E b \in (0 - MaxBatch)..MaxBatch : Fetch(b)) /\ UNCHANGED codecVars

Spec == Init /\ [][Next]_vars

(***************************************************************************)
(* headers.rs: Headers::to_bytes                                           *)
(***************************************************************************)

\* A faulty variant: the line ending after a pair is forgotten.
EmitPairNoLineEnd(k, v) == Trim(k) \o <<":">> \o Trim(v)

\* k.trim() ':' v.trim() "\r\n"
EmitPair(k, v) == Trim(k) \o <<":">> \o Trim(v) \o CrLf

RECURSIVE EmitPairs(_)
EmitPairs(order) ==
    IF order = <<>> THEN <<>>
    ELSE EmitPair(Head(order)[1], Head(order)[2]) \o EmitPairs(Tail(order))

\* The (name, value) pairs held by a Headers value.
PairsOf(m) == UNION {{<<k, v>> : v \in m[k]} : k \in DOMAIN m}

\* for (k, vs) in &self.inner { for v in vs { .. } }: the names in any order
\* and, under each name, its values in any order (HashMap and HashSet promise
\* none).
IterationOrders(m) ==
    LET ps == PairsOf(m)
        n == Cardinality(ps)
    IN {o \in [1..n -> ps] :
           /\ \A i, j \in 1..n : i # j => o[i] # o[j]
           /\ \A i, j, l \in 1..n :
                 (i < j /\ j < l /\ o[i][1] = o[l][1]) => o[j][1] = o[i][1]}

\* Headers::to_bytes, for one order of iteration.
ToBytes(m, order) == VersionLine \o EmitPairs(order) \o CrLf

(***************************************************************************)
(* The inputs                                                              *)
(***************************************************************************)
MaxBody == 4
MaxPairs == 2

\* The inputs of the tests of headers.rs and the examples of its description.
Fixtures ==
    {BytesSingleLineSingleValue, BytesSingleLineMultiValue,
     BytesMultiLineSingleValueWithTab, BytesMultiLineSingleValueWithSpace,
     BytesMultiLineMultiValueWithTab, BytesMultiLineMultiValueWithSpaces,
     BytesOneSpaceContinuation, BytesCommaList, BytesSpacedList,
     BytesGarbage, BytesEmptyName}

\* What an enumerated input starts with: nothing, the version prefix, a
\* version line, a version line and one header line.
Heads ==
    {<<>>, NatsPrefix, VersionLine,
     VersionLine \o <<"a", ":", "a", "\r", "\n">>}

\* Every string of at most MaxBody characters of Alphabet.
Bodies == UNION {[1..n -> Alphabet] : n \in 0..MaxBody}

\* The byte strings handed to try_from.
WireInputs == Fixtures \cup {h \o b : h \in Heads, b \in Bodies}

\* Names and values a Headers is built from: plain ones, and ones with a
\* separator, surrounding whitespace or a line feed in them.
BuildNames ==
    {<<"a">>, <<"b">>, <<>>, <<"a", ",", "b">>, <<" ", "a">>, <<"a", ":">>,
     <<"a", "\n">>}
BuildValues ==
    {<<"a">>, <<"b">>, <<>>, <<"a", " ", "b">>, <<"a", ",", "b">>,
     <<" ", "a">>, <<"a", " ">>, <<"a", "\n", "b">>}

RECURSIVE SubsetsUpTo(_, _)
\* The subsets of S with at most k elements.
SubsetsUpTo(S, k) ==
    IF k = 0 THEN {{}}
    ELSE LET prev == SubsetsUpTo(S, k - 1)
         IN prev \cup {p \cup {x} : p \in prev, x \in S}

PairSets == SubsetsUpTo(BuildNames \X BuildValues, MaxPairs)

(***************************************************************************)
(* The codec as a state machine: bytes come in and are parsed; a Headers   *)
(* is built, serialized and parsed again.                                  *)
(***************************************************************************)
SubIdle ==
    /\ ownership = "No"
    /\ holders = {}
    /\ made = 0
    /\ inner = "dropped"
    /\ deleteLog = <<>>
    /\ released = NoRelease
    /\ pending = 0
    /\ pullRequests = 0
    /\ fetched = NoFetch

InitCodec ==
    \/ /\ mode = "received"
       /\ buf \in WireInputs
       /\ pairs = {}
       /\ headers = EmptyInner
       /\ parsed = NotParsed
    \/ /\ mode = "built"
       /\ pairs \in PairSets
       /\ headers = FromIterator(pairs)
       /\ buf = <<>>
       /\ parsed = NotParsed

\* Headers::try_from(buf) on received bytes.
ParseReceived ==
    /\ mode = "received"
    /\ parsed' = TryFrom(buf)
    /\ mode' = "parsed"
    /\ UNCHANGED <<pairs, headers, buf>>

\* headers.to_bytes()
Serialize ==
    /\ mode = "built"
    /\ \E order \in IterationOrders(headers) : buf' = ToBytes(headers, order)
    /\ mode' = "serialized"
    /\ UNCHANGED <<pairs, headers, parsed>>

\* Headers::try_from(buf) on the bytes to_bytes produced.
ParseSerialized ==
    /\ mode = "serialized"
    /\ parsed' = TryFrom(buf)
    /\ mode' = "reparsed"
    /\ UNCHANGED <<pairs, headers, buf>>

NextCodec ==
    \/ ParseReceived /\ UNCHANGED subVars
    \/ Serialize /\ UNCHANGED subVars
    \/ ParseSerialized /\ UNCHANGED subVars

CodecInit == InitCodec /\ SubIdle

SpecCodec == CodecInit /\ [][NextCodec]_vars

(***************************************************************************)
(* Claims about the consumer handle and fetch, checked under Spec          *)
(***************************************************************************)

\* C1: whatever the order of clones and releases, no delete-consumer request
\* is issued while a clone is held, and once the last clone is released the
\* number of requests ever issued is 1 for an owned handle, 0 for a borrowed one.
C1_DeleteOnlyAfterLastRelease ==
    /\ holders # {} => (deleteLog = <<>> /\ inner = "live")
    /\ holders = {} =>
          /\ inner = "dropped"
          /\ Len(deleteLog) = IF ownership = "Yes" THEN 1 ELSE 0

\* An owned handle that had three holders, all released, in any order.
C1_Witness ==
    /\ made >= 3
    /\ holders = {}
    /\ ownership = "Yes"
    /\ Len(deleteLog) = 1

\* C2: the release of the last reference to an owned handle can be taken for
\* each outcome of the delete request (success, network error, not found),
\* leaves the handle torn down for each, and reports no failure to the caller.
C2_ReleaseNeverFails ==
    /\ released.surfaced = "none"
    /\ \A h \in holders, o \in DeleteOutcomes :
          ENABLED (/\ Release(h, o)
                   /\ released'.surfaced = "none"
                   /\ (holders = {h} =>
                          /\ inner' = "dropped"
                          /\ (ownership = "Yes" => deleteLog' = <<o>>)))
    /\ (inner = "dropped" /\ ownership = "Yes") =>
          (released.last /\ Len(deleteLog) = 1 /\ deleteLog[1] \in DeleteOutcomes)

\* The last release of an owned handle whose delete request met a network error.
C2_Witness ==
    /\ inner = "dropped"
    /\ ownership = "Yes"
    /\ released.last
    /\ deleteLog = <<"network_error">>

\* C3: fetch(batch) with batch <= 0 returns a failure, and no retrieval
\* request has been issued to the transport.
C3_NonPositiveBatchRejected ==
    (fetched.called /\ fetched.batch <= 0) =>
        (~fetched.ok /\ pullRequests = 0)

\* C4: a successful fetch(batch) with batch > 0 returns at most batch
\* messages, however many are pending.
C4_FetchAtMostBatch ==
    (fetched.called /\ fetched.batch > 0 /\ fetched.ok) =>
        Len(fetched.messages) <= fetched.batch

\* A successful fetch that asked for fewer messages than were pending.
C4_Witness ==
    /\ fetched.called
    /\ fetched.ok
    /\ fetched.batch > 0
    /\ fetched.available > fetched.batch

(***************************************************************************)
(* Claims about the header codec, checked under SpecCodec                  *)
(***************************************************************************)

\* Whether character c occurs in string s.
Occurs(c, s) == \E i \in 1..Len(s) : s[i] = c

\* The parse result is the Headers value m.
ParsedIs(m) == parsed.ok /\ parsed.inner = m

\* C5, as claimed: for a Headers built from any set of (name, value) pairs,
\* parsing what to_bytes wrote succeeds and gives the same names with the same
\* value set under each, commas and surrounding whitespace included.
C5_RoundTripAnyPairs ==
    mode = "reparsed" =>
        /\ parsed.ok
        /\ DOMAIN parsed.inner = DOMAIN headers
        /\ \A k \in DOMAIN headers : parsed.inner[k] = headers[k]

\* A name or value that to_bytes writes unchanged and try_from reads back whole.
WireSafeName(k) == Trim(k) = k /\ ~Occurs(":", k) /\ ~Occurs("\n", k)
WireSafeValue(v) == Trim(v) = v /\ ~Occurs(",", v) /\ ~Occurs("\n", v)

\* C5, amended: the round trip gives back the same names and value sets when
\* no name or value has leading or trailing whitespace or a line feed, no name
\* has a colon and no value has a comma.
C5_RoundTripWireSafe ==
    (/\ mode = "reparsed"
     /\ \A p \in pairs : WireSafeName(p[1]) /\ WireSafeValue(p[2])) =>
        /\ parsed.ok
        /\ DOMAIN parsed.inner = DOMAIN headers
        /\ \A k \in DOMAIN headers : parsed.inner[k] = headers[k]

\* A round trip of two wire-safe values under one name.
C5_Witness ==
    /\ mode = "reparsed"
    /\ \A p \in pairs : WireSafeName(p[1]) /\ WireSafeValue(p[2])
    /\ \E k \in DOMAIN headers : Cardinality(headers[k]) = 2
    /\ ParsedIs(headers)

\* C6, as claimed: "x-test: one" followed by " two" and " three" (one leading
\* space each) parses to the single value "one two three" under "x-test".
C6_OneSpaceFoldKeepsSpaces ==
    (mode = "parsed" /\ buf = BytesOneSpaceContinuation) =>
        ParsedIs([n \in {StrXTest} |-> {StrOneTwoThree}])

\* C6, amended: that block parses to the single value "onetwothree": the one
\* leading space of each continuation line is dropped and nothing is put in.
C6_OneSpaceFoldJoins ==
    (mode = "parsed" /\ buf = BytesOneSpaceContinuation) =>
        ParsedIs([n \in {StrXTest} |-> {StrOnetwothree}])

\* The block with the two one-space continuation lines has been parsed.
C6_Witness ==
    /\ mode = "parsed"
    /\ buf = BytesOneSpaceContinuation
    /\ parsed.ok

RECURSIVE HeaderLines(_, _)
\* The header lines from line i on, each with its name and its folded value.
HeaderLines(lines, i) ==
    IF i > Len(lines) THEN <<>>
    ELSE LET splits == Splits(lines[i])
         IN IF Len(splits) = 2
               THEN LET f == Fold(lines, i + 1, splits[2])
                    IN <<[name |-> splits[1], value |-> f.value]>>
                           \o HeaderLines(lines, f.next)
               ELSE HeaderLines(lines, i + 1)

\* The comma-separated pieces of s, each trimmed.
TrimmedPieces(s) ==
    LET ps == Split(s, ",") IN {Trim(ps[j]) : j \in 1..Len(ps)}

\* C7: after a successful parse the value set of every name is the union,
\* over the header lines with that name, of the trimmed comma-separated
\* pieces of the line's folded value; so no value has surrounding whitespace.
C7_ValuesAreTrimmedPieces ==
    (mode = "parsed" /\ parsed.ok) =>
        LET hl == HeaderLines(StrLines(buf), 2)
        IN /\ DOMAIN parsed.inner = {hl[i].name : i \in 1..Len(hl)}
           /\ \A k \in DOMAIN parsed.inner :
                 /\ parsed.inner[k] =
                       UNION {TrimmedPieces(hl[i].value) :
                                 i \in {j \in 1..Len(hl) : hl[j].name = k}}
                 /\ \A v \in parsed.inner[k] : Trim(v) = v

\* A line is blank when nothing but whitespace is on it.
Blank(line) == \A i \in 1..Len(line) : IsWhitespace(line[i])

StartsWithSpaceOrTab(line) == line # <<>> /\ line[1] \in {" ", "\t"}

RECURSIVE ConsumedAsContinuation(_, _)
\* Line i starts with a space or a tab and follows a header line, with nothing
\* but such lines in between.
ConsumedAsContinuation(lines, i) ==
    /\ i >= 3
    /\ StartsWithSpaceOrTab(lines[i])
    /\ \/ ConsumedAsContinuation(lines, i - 1)
       \/ (Occurs(":", lines[i - 1]) /\ ~ConsumedAsContinuation(lines, i - 1))

\* Some line after the first is not blank, is not consumed as a continuation
\* and has no colon.
HasMalformedLine(lines) ==
    \E i \in 2..Len(lines) :
        /\ ~Blank(lines[i])
        /\ ~ConsumedAsContinuation(lines, i)
        /\ ~Occurs(":", lines[i])

\* C8: try_from returns a result for every input; it fails with "missing
\* header block" exactly on the empty input, with "malformed version line"
\* exactly when the input does not begin with "NATS/", with "malformed header
\* line" exactly when a later line is not blank, not a consumed continuation
\* and has no colon; the three reasons differ, and every other input parses.
C8_FailsExactlyWhenMalformed ==
    mode = "parsed" =>
        LET lines == StrLines(buf)
            noBlock == buf = <<>>
            badVersion == buf # <<>> /\ ~StartsWith(buf, NatsPrefix)
            badLine == /\ StartsWith(buf, NatsPrefix)
                       /\ HasMalformedLine(lines)
        IN /\ noBlock <=> parsed = ParseError(ErrMissing)
           /\ badVersion <=> parsed = ParseError(ErrVersion)
           /\ badLine <=> parsed = ParseError(ErrHeader)
           /\ (~noBlock /\ ~badVersion /\ ~badLine) <=> parsed.ok
           /\ Cardinality({ErrMissing, ErrVersion, ErrHeader}) = 3

\* A header line without a colon has been refused.
C8_Witness ==
    /\ mode = "parsed"
    /\ buf = BytesGarbage
    /\ parsed = ParseError(ErrHeader)

\* C9: after a successful parse every name is non-empty and has no colon,
\* every name has at least one value, and a block without header lines gives
\* the empty map.
C9_NamesAndValueSetsNonEmpty ==
    (mode = "parsed" /\ parsed.ok) =>
        /\ \A k \in DOMAIN parsed.inner :
              /\ k # <<>>
              /\ ~Occurs(":", k)
              /\ parsed.inner[k] # {}
        /\ (\A i \in 2..Len(StrLines(buf)) : ~Occurs(":", StrLines(buf)[i]))
              => parsed.inner = EmptyInner

RECURSIVE ConcatTails(_, _)
\* The lines from j on, each without its first character, one after the other.
ConcatTails(lines, j) ==
    IF j > Len(lines) THEN <<>>
    ELSE SubSeq(lines[j], 2, Len(lines[j])) \o ConcatTails(lines, j + 1)

\* C10: the lines after a header line that start with a space or a tab are
\* continuations: each adds its content less its first character, nothing in
\* between, further leading whitespace kept. So "x-test: one" with "\t two",
\* "\t three", or with "  two", "  three", is the one value "one two three";
\* and a block of a version line, one header line and continuation lines only,
\* whose folded value has no comma, has that folded value as its one value.
C10_FoldDropsOneCharacter ==
    mode = "parsed" =>
        /\ buf \in {BytesMultiLineSingleValueWithTab,
                    BytesMultiLineSingleValueWithSpace}
              => ParsedIs([n \in {StrXTest} |-> {StrOneTwoThree}])
        /\ LET lines == StrLines(buf)
               c == IF Len(lines) >= 2 THEN IndexOf(lines[2], ":") ELSE 0
               name == Trim(SubSeq(lines[2], 1, c - 1))
               folded == Trim(SubSeq(lines[2], c + 1, Len(lines[2])))
                             \o ConcatTails(lines, 3)
           IN (/\ StartsWith(buf, NatsPrefix)
               /\ c > 0
               /\ \A j \in 3..Len(lines) : StartsWithSpaceOrTab(lines[j])
               /\ ~Occurs(",", folded))
                 => ParsedIs([n \in {name} |-> {folded}])

\* The block of the test with "\t two" and "\t three" has been parsed.
C10_Witness ==
    /\ mode = "parsed"
    /\ buf = BytesMultiLineSingleValueWithTab
    /\ parsed.ok

====
